---------------------------- MODULE Spec2Model ----------------------------
(***************************************************************************)
(* A model of scripts/get_alaskan_weather.py: the command-line entry point *)
(* and its three reports (daily, current, marine).                         *)
(*                                                                         *)
(* Text is modelled in two ways.  The marine feed, which the program       *)
(* splits and searches, is a sequence of words (a word is the unit of      *)
(* re.split and re.search here; the separator "$$" is a word of its own).  *)
(* Rendered report text is a TLA+ string built by concatenation, as        *)
(* str.format and ''.join build it.  A JSON string of digits that the      *)
(* program hands to int() is a sequence of digits.                         *)
(***************************************************************************)
EXTENDS Integers, Sequences, FiniteSets, TLC

VARIABLES
    pc,                 \* control position of the running script
    type_,              \* the positional argument weather_type
    stdout,             \* what print() has written, one entry per call
    output,             \* the variable `output` of __main__
    requests,           \* every requests.get issued so far, in order
    responses,          \* every response body received so far, in order
    exception,          \* 0, or the number of the request at which an
                        \* exception was raised
    raw_text,           \* get_marine_forecast: the fetched feed
    split_text,         \* get_marine_forecast: the feed split on the separator
    location,           \* get_marine_forecast: index of the loop variable
    ordered_forecasts,  \* get_marine_forecast: the blocks picked so far
    tomorrow,           \* what _get_tomorrow_datetime_in_alaska_tz returns
    key_location,       \* get_sunphase_and_tides: index of the loop variable
    raw_data_tides,     \* get_sunphase_and_tides: the response being handled
    sunrise,            \* get_sunphase_and_tides
    sunset,             \* get_sunphase_and_tides
    daylight_hours,     \* get_sunphase_and_tides
    daylight_minutes,   \* get_sunphase_and_tides
    data_tides,         \* get_sunphase_and_tides
    detail_strings,     \* _format_tide_detail_strings: its list
                        \* tide_string_details, one string per date
    location_details,   \* get_sunphase_and_tides
    tide_string_details,\* get_sunphase_and_tides: the dict of details
    sunphase_and_tides, \* __main__: the value of get_sunphase_and_tides()
    forecast_i,         \* get_forecast: index of the loop variable
    raw_data_forecast,  \* get_forecast
    data_forecast,      \* get_forecast
    forecast_details,   \* get_forecast: the dict location_details
    city_i,             \* get_current_temperature: index of the loop variable
    raw_temp,           \* get_current_temperature
    string_temperature_details  \* get_current_temperature

mainVars     == <<pc, type_, stdout, output, requests, responses, exception>>
marineVars   == <<raw_text, split_text, location, ordered_forecasts>>
sunVars      == <<sunrise, sunset, daylight_hours, daylight_minutes>>
tideVars     == <<tomorrow, key_location, raw_data_tides, sunVars, data_tides,
                  detail_strings, location_details, tide_string_details,
                  sunphase_and_tides>>
forecastVars == <<forecast_i, raw_data_forecast, data_forecast, forecast_details>>
currentVars  == <<city_i, raw_temp, string_temperature_details>>
vars         == <<mainVars, marineVars, tideVars, forecastVars, currentVars>>

(***************************************************************************)
(* Generic sequence helpers.                                               *)
(***************************************************************************)
RECURSIVE Flatten(_)
Flatten(ss) == IF ss = <<>> THEN <<>> ELSE Head(ss) \o Flatten(Tail(ss))

RECURSIVE JoinStrings(_)
JoinStrings(ss) == IF ss = <<>> THEN "" ELSE Head(ss) \o JoinStrings(Tail(ss))

(***************************************************************************)
(*                          The marine forecast                            *)
(***************************************************************************)
_SEPARATOR_MARINE_FORECAST == "$$"

_ORDER_MARINE_FORECAST ==
    << <<"KACHEMAK", "BAY">>,
       <<"COOK", "INLET", "NORTH", "OF", "KALGIN", "ISLAND">>,
       <<"COOK", "INLET", "KALGIN", "ISLAND", "TO", "POINT", "BEDE">>,
       <<"SHELIKOF", "STRAIT">>,
       <<"BARREN", "ISLANDS", "EAST">>,
       <<"WEST", "OF", "BARREN", "ISLANDS", "INCLUDING", "KAMISHAK", "BAY">>,
       <<"CAPE", "CLEARE", "TO", "GORE", "POINT">> >>

Regions == 1..Len(_ORDER_MARINE_FORECAST)

\* re.split(_SEPARATOR_MARINE_FORECAST, raw_text): n separators give n+1 pieces,
\* empty pieces included.  The text up to the first separator is a piece, and
\* the rest is split in the same way.
RECURSIVE ReSplit(_)
ReSplit(text) ==
    LET seps == { i \in 1..Len(text) : text[i] = _SEPARATOR_MARINE_FORECAST }
    IN  IF seps = {} THEN <<text>>
        ELSE LET first == CHOOSE i \in seps : \A j \in seps : i <= j
             IN  <<SubSeq(text, 1, first - 1)>>
                 \o ReSplit(SubSeq(text, first + 1, Len(text)))

\* bool(re.search(pattern, text)) for a pattern without metacharacters:
\* the pattern occurs as a contiguous run of the text.
ReSearch(pattern, text) ==
    \E s \in 1..(Len(text) - Len(pattern) + 1) :
        \A i \in 1..Len(pattern) : text[s + i - 1] = pattern[i]

\* list.index(True): the first position holding True.  Positions are 1-based
\* here, and 0 stands for the ValueError that index raises when there is none.
RECURSIVE ListIndexFrom(_, _, _)
ListIndexFrom(list, value, k) ==
    IF k > Len(list) THEN 0
    ELSE IF list[k] = value THEN k
         ELSE ListIndexFrom(list, value, k + 1)

\* list.index read from the right: the last position holding the value.
ListIndexLast(list, value) ==
    IF \E k \in 1..Len(list) : list[k] = value
    THEN CHOOSE k \in 1..Len(list) :
            list[k] = value /\ \A j \in (k + 1)..Len(list) : list[j] # value
    ELSE 0

ListIndex(list, value) == ListIndexFrom(list, value, 1)

\* The search of lines 256-257 with a default in place of the exception: a
\* region found in no block falls back to the first block.
IdxFoundOrFirst(loc, blocks) ==
    LET found == [k \in 1..Len(blocks) |->
                     ReSearch(_ORDER_MARINE_FORECAST[loc], blocks[k])]
    IN  IF ListIndexFrom(found, TRUE, 1) = 0 THEN 1 ELSE ListIndexFrom(found, TRUE, 1)

\* The list comprehension and index of lines 256-257.
IdxFound(loc, blocks) ==
    ListIndex([k \in 1..Len(blocks) |-> ReSearch(_ORDER_MARINE_FORECAST[loc], blocks[k])],
              TRUE)

(***************************************************************************)
(* The feeds the server may return.  Each region has a home block          *)
(* (0: the region is absent from the feed); a synopsis block naming every  *)
(* region that is present may open or close the feed.  Every block starts  *)
(* with a header whose words overlap the region names without being one.   *)
(***************************************************************************)
MaxBlocks == 2

BlockHeader == <<"BARREN", "ISLANDS", "BAY", "COOK", "INLET">>
BlockBody   == <<"SW15KT">>

RECURSIVE NamesPlaced(_, _, _)
NamesPlaced(place, k, r) ==
    IF r > Len(_ORDER_MARINE_FORECAST) THEN <<>>
    ELSE (IF place[r] = k THEN _ORDER_MARINE_FORECAST[r] \o <<"...">> ELSE <<>>)
         \o NamesPlaced(place, k, r + 1)

RECURSIVE NamesPresent(_, _)
NamesPresent(place, r) ==
    IF r > Len(_ORDER_MARINE_FORECAST) THEN <<>>
    ELSE (IF place[r] # 0 THEN _ORDER_MARINE_FORECAST[r] \o <<"...">> ELSE <<>>)
         \o NamesPresent(place, r + 1)

RECURSIVE FeedBlocks(_, _)
FeedBlocks(place, k) ==
    IF k > MaxBlocks THEN <<>>
    ELSE BlockHeader \o NamesPlaced(place, k, 1) \o BlockBody
         \o <<_SEPARATOR_MARINE_FORECAST>> \o FeedBlocks(place, k + 1)

Synopsis(place) ==
    <<"SYNOPSIS", "FOR">> \o NamesPresent(place, 1) \o <<_SEPARATOR_MARINE_FORECAST>>

FeedText(place, echo) ==
    (IF echo = "head" THEN Synopsis(place) ELSE <<>>)
    \o FeedBlocks(place, 1)
    \o (IF echo = "tail" THEN Synopsis(place) ELSE <<>>)

MarineFeeds ==
    { FeedText(place, echo) : place \in [Regions -> 0..MaxBlocks],
                              echo \in {"none", "head", "tail"} }

(***************************************************************************)
(*                     Numbers and strings of the feeds                    *)
(***************************************************************************)
\* int(s) for a JSON string of decimal digits, given as its digits.
RECURSIVE IntOf(_)
IntOf(ds) ==
    IF ds = <<>> THEN 0
    ELSE 10 * IntOf(SubSeq(ds, 1, Len(ds) - 1)) + ds[Len(ds)]

\* The JSON string itself, as text.
RECURSIVE StrOf(_)
StrOf(ds) == IF ds = <<>> THEN "" ELSE ToString(Head(ds)) \o StrOf(Tail(ds))

\* '{:0>2d}'.format(n): at least two characters, filled with '0' on the left.
Pad2(n) == IF Len(ToString(n)) < 2 THEN "0" \o ToString(n) ELSE ToString(n)

\* dict.get(key, default); a dict is a function, {} the function of no key.
EmptyDict == <<>>

DictGet(d, key, default) == IF key \in DOMAIN d THEN d[key] ELSE default

\* d[key] = value
DictSet(d, key, value) ==
    [x \in (DOMAIN d) \cup {key} |-> IF x = key THEN value ELSE d[x]]

(***************************************************************************)
(*                      Sun phase and daylight duration                    *)
(***************************************************************************)
_KEY_SUNRISE   == "Sunrise"
_KEY_SUNSET    == "Sunset"
_KEY_TIDE_HIGH == "High Tide"
_KEY_TIDE_LOW  == "Low Tide"
_KEY_HOUR        == "hour"
_KEY_MINUTE      == "minute"
_KEY_TIDE_HEIGHT == "height"

\* datetime.datetime(year, month, day, hour, minute)
Datetime(y, m, d, h, mi) == [year |-> y, month |-> m, day |-> d, hour |-> h, minute |-> mi]

\* The (year, month, day) a datum of the tide summary is dated, after int().
DateOf(datum) ==
    <<IntOf(datum.date.year), IntOf(datum.date.mon), IntOf(datum.date.mday)>>

\* Lines 146-155: the loop, carrying (sunrise_hour, sunrise_minute) and
\* (sunset_hour, sunset_minute).
RECURSIVE SunphaseLoop(_, _, _, _)
SunphaseLoop(summary, ymd, rise, set) ==
    IF summary = <<>> THEN <<rise, set>>
    ELSE LET datum == Head(summary)
             hm    == <<IntOf(datum.date.hour), IntOf(datum.date.min)>>
         IN  IF DateOf(datum) # ymd
             THEN SunphaseLoop(Tail(summary), ymd, rise, set)
             ELSE SunphaseLoop(Tail(summary), ymd,
                               IF datum.data.type = _KEY_SUNRISE THEN hm ELSE rise,
                               IF datum.data.type = _KEY_SUNSET THEN hm ELSE set)

\* Lines 140-158.  ymd is what _get_tomorrow_datetime_in_alaska_tz returned.
_format_sunphase_data(raw, ymd) ==
    LET found == SunphaseLoop(raw.tideSummary, ymd, <<0, 0>>, <<0, 0>>)
    IN  <<Datetime(ymd[1], ymd[2], ymd[3], found[1][1], found[1][2]),
          Datetime(ymd[1], ymd[2], ymd[3], found[2][1], found[2][2])>>

\* (a - b).total_seconds() / 60 for two datetimes of the same date and of whole
\* minutes: the difference in minutes.
DeltaMinutes(a, b) == (a.hour * 60 + a.minute) - (b.hour * 60 + b.minute)

\* int(x / 60) for a whole x: the true quotient cut towards zero.
IntTrueDiv(x, n) == IF x >= 0 THEN x \div n ELSE -((-x) \div n)

\* Lines 168-172, on the difference in minutes (Python's % takes the sign of
\* the divisor, as TLA+'s does).
_get_total_daylight_hours_and_minutes(daylight_raw_minutes) ==
    <<IntTrueDiv(daylight_raw_minutes, 60), daylight_raw_minutes % 60>>

\* _STRING_DAYLIGHT.format(...), lines 76-82 and 128-131.
_STRING_DAYLIGHT(rise, set, total_hours, total_minutes) ==
    "\nDaylight " \o Pad2(rise.month) \o "/" \o Pad2(rise.day)
    \o "\n  Sunrise:  " \o Pad2(rise.hour) \o ":" \o Pad2(rise.minute)
    \o "\n  Sunset:   " \o Pad2(set.hour) \o ":" \o Pad2(set.minute)
    \o "\n  Total:    " \o ToString(total_hours) \o " hours and "
    \o ToString(total_minutes) \o " minutes\n\n"

(***************************************************************************)
(*                                 Tides                                   *)
(***************************************************************************)
TideTypes == {_KEY_TIDE_HIGH, _KEY_TIDE_LOW}

\* The dict of lines 183-185 for one datum.
TideEntry(datum) ==
    [hour   |-> StrOf(datum.date.hour),
     minute |-> StrOf(datum.date.min),
     height |-> datum.data.height]

\* Lines 177-185 with the assignment replaced by setdefault: the first event of
\* a type on a date is kept.
RECURSIVE TideLoopKeepFirst(_, _)
TideLoopKeepFirst(summary, tides) ==
    IF summary = <<>> THEN tides
    ELSE LET datum == Head(summary)
             key   == DateOf(datum)
             day   == DictGet(tides, key, EmptyDict)
         IN  IF datum.data.type \notin TideTypes
             THEN TideLoopKeepFirst(Tail(summary), tides)
             ELSE TideLoopKeepFirst(Tail(summary),
                     DictSet(tides, key,
                             IF datum.data.type \in DOMAIN day THEN day
                             ELSE DictSet(day, datum.data.type, TideEntry(datum))))

_format_tide_data_keep_first(raw) == TideLoopKeepFirst(raw.tideSummary, EmptyDict)

\* Lines 177-185: the loop, carrying data_tides.
RECURSIVE TideLoop(_, _)
TideLoop(summary, tides) ==
    IF summary = <<>> THEN tides
    ELSE LET datum == Head(summary)
             key   == DateOf(datum)
             day   == DictGet(tides, key, EmptyDict)
         IN  IF datum.data.type \notin TideTypes
             THEN TideLoop(Tail(summary), tides)
             ELSE TideLoop(Tail(summary),
                           DictSet(tides, key,
                                   DictSet(day, datum.data.type, TideEntry(datum))))

\* Lines 175-186.
_format_tide_data(raw) == TideLoop(raw.tideSummary, EmptyDict)

\* Order of two dates by month and day alone.
MonthDayLess(a, b) == a[2] < b[2] \/ (a[2] = b[2] /\ a[3] < b[3])

\* datetime < datetime, for two dates (year, month, day).
DatetimeLess(a, b) ==
    \/ a[1] < b[1]
    \/ a[1] = b[1] /\ a[2] < b[2]
    \/ a[1] = b[1] /\ a[2] = b[2] /\ a[3] < b[3]

\* sorted(data_tides.items(), key=lambda dt: dt[0]): the keys in ascending order.
RECURSIVE SortedKeys(_)
SortedKeys(keys) ==
    IF keys = {} THEN <<>>
    ELSE LET first == CHOOSE k \in keys : \A j \in keys : ~DatetimeLess(j, k)
         IN  <<first>> \o SortedKeys(keys \ {first})

\* tide.get(key, '') in place of lines 198-203.
TideFieldBlank(tide, key) == DictGet(tide, key, "")

\* tide_high.get(key, 'XX') and tide_low.get(key, 'XX'), lines 198-203.
TideField(tide, key) == DictGet(tide, key, "XX")

\* _STRING_TIDES_DETAIL.format(...), lines 92-95.
_STRING_TIDES_DETAIL(month, day, high_hour, high_minute, high_height, low_hour, low_minute, low_height) ==
    "    " \o Pad2(month) \o "/" \o Pad2(day)
    \o "\n      High tide:  " \o high_hour \o ":" \o high_minute
    \o " (" \o high_height \o ")"
    \o "\n      Low tide:   " \o low_hour \o ":" \o low_minute
    \o " (" \o low_height \o ")\n"

\* Lines 192-204: the string of one (datetime_ak, datum) item.
TideDetail(datetime_ak, datum) ==
    LET tide_high == DictGet(datum, _KEY_TIDE_HIGH, EmptyDict)
        tide_low  == DictGet(datum, _KEY_TIDE_LOW, EmptyDict)
    IN  _STRING_TIDES_DETAIL(datetime_ak[2], datetime_ak[3],
            TideField(tide_high, _KEY_HOUR), TideField(tide_high, _KEY_MINUTE),
            TideField(tide_high, _KEY_TIDE_HEIGHT),
            TideField(tide_low, _KEY_HOUR), TideField(tide_low, _KEY_MINUTE),
            TideField(tide_low, _KEY_TIDE_HEIGHT))

\* Lines 190-204: the list tide_string_details of _format_tide_detail_strings.
TideDetailList(tides) ==
    LET keys == SortedKeys(DOMAIN tides)
    IN  [i \in 1..Len(keys) |-> TideDetail(keys[i], tides[keys[i]])]

\* Lines 189-205.
_format_tide_detail_strings(tides) == JoinStrings(TideDetailList(tides))

\* _STRING_TIDES.format(**tide_string_details), lines 84-90 and 132.
_STRING_TIDES(details) ==
    "\nTides\n  Kachemak Bay, Seldovia\n" \o details["kachemak_bay_seldovia_detail"]
    \o "\n  Kenai River\n" \o details["kenai_river_detail"] \o "\n"

key_locations == <<"kachemak_bay_seldovia", "kenai_river">>

(***************************************************************************)
(*                               Forecast                                  *)
(***************************************************************************)
_ORDER_FORECAST ==
    << <<"western_kenai_peninsula", "Western Kenai Peninsula">>,
       <<"anchorage", "Anchorage">> >>

\* Lines 242-245: the loop, carrying data_forecast.
RECURSIVE ForecastLoop(_, _)
ForecastLoop(forecastday, acc) ==
    IF forecastday = <<>> THEN acc
    ELSE IF Head(forecastday).period = 4 THEN acc
         ELSE ForecastLoop(Tail(forecastday),
                  Append(acc, <<Head(forecastday).title, Head(forecastday).fcttext>>))

\* Lines 240-246.
_format_forecast_data(raw) == ForecastLoop(raw.forecastday, <<>>)

\* _STRING_FORECAST_DETAIL.format(title=title, forecast=forecast), lines 113-114.
_STRING_FORECAST_DETAIL(title, forecast) ==
    "    " \o title \o ":  " \o forecast \o "\n"

\* Lines 229-231.
ForecastDetail(forecast) ==
    JoinStrings([i \in 1..Len(forecast) |->
                    _STRING_FORECAST_DETAIL(forecast[i][1], forecast[i][2])])

\* _STRING_FORECAST.format(**location_details), lines 105-111 and 232.
_STRING_FORECAST(details) ==
    "\nForecast\n  Western Kenai Peninsula\n" \o details["western_kenai_peninsula_detail"]
    \o "\n  Anchorage\n" \o details["anchorage_detail"] \o "\n"

(***************************************************************************)
(*                          Current temperature                            *)
(***************************************************************************)
_ORDER_CURRENT_TEMPERATURE ==
    << <<"homer", "Homer">>,
       <<"anchor_point", "Anchor Point">>,
       <<"ninilchik", "Ninilchik">>,
       <<"kachemak_bay_seldovia", "Seldovia">>,
       <<"port_graham", "Port Graham">>,
       <<"nanwalek", "Nanwalek">>,
       <<"kenai", "Kenai">>,
       <<"soldotna", "Soldotna">>,
       <<"cooper_landing", "Cooper Landing">>,
       <<"anchorage", "Anchorage">> >>

\* max(...) over a non-empty set of numbers.
Max(S) == CHOOSE n \in S : \A m \in S : m <= n

\* Line 209.
string_padding ==
    Max({Len(_ORDER_CURRENT_TEMPERATURE[i][2]) :
            i \in 1..Len(_ORDER_CURRENT_TEMPERATURE)})

\* '{:<{padding}s}'.format(s): s, filled with spaces on the right up to the
\* width; a longer s is left as it is.
RECURSIVE LJust(_, _)
LJust(s, width) == IF Len(s) >= width THEN s ELSE LJust(s \o " ", width)

\* '{:.0f}'.format(t) for a temperature given in tenths of a degree: rounded to
\* a whole number, a half going to the even neighbour, the sign kept.
Format0f(tenths) ==
    LET a == IF tenths < 0 THEN -tenths ELSE tenths
        q == a \div 10
        r == a % 10
        n == IF r > 5 \/ (r = 5 /\ q % 2 = 1) THEN q + 1 ELSE q
    IN  (IF tenths < 0 THEN "-" ELSE "") \o ToString(n)

\* _STRING_CURRENT_TEMPERATURE_DETAIL.format(...), lines 102-103 and 213-214.
_STRING_CURRENT_TEMPERATURE_DETAIL(city, padding, temperature) ==
    "  " \o LJust(city, padding) \o "  " \o Format0f(temperature) \o "\n"

\* _STRING_CURRENT_TEMPERATURE.format(...), lines 97-100 and 216.
_STRING_CURRENT_TEMPERATURE(current_temperature_detail) ==
    "\nCurrent temperature\n" \o current_temperature_detail \o "\n"

(***************************************************************************)
(*                 What the servers may answer: the inputs                 *)
(***************************************************************************)
\* Every sequence over S of length at most n.
SeqsUpTo(S, n) == UNION {[1..k -> S] : k \in 0..n}

\* One entry of tide.tideSummary.
Datum(y, mo, d, h, mi, type, height) ==
    [date |-> [year |-> y, mon |-> mo, mday |-> d, hour |-> h, min |-> mi],
     data |-> [type |-> type, height |-> height]]

Y2026 == <<2, 0, 2, 6>>
Y2027 == <<2, 0, 2, 7>>

\* High and low tides on 2026-11-09 (its day written "9" and "09"), on
\* 2026-11-10 and on 2027-01-02, and two entries of other types.
TideEvents ==
    { Datum(Y2026, <<1, 1>>, <<9>>,    <<0, 5>>, <<3, 0>>, _KEY_TIDE_HIGH, "18.5 ft"),
      Datum(Y2026, <<1, 1>>, <<0, 9>>, <<1, 7>>, <<4, 5>>, _KEY_TIDE_HIGH, "16.2 ft"),
      Datum(Y2026, <<1, 1>>, <<9>>,    <<1, 1>>, <<1, 5>>, _KEY_TIDE_LOW,  "2.1 ft"),
      Datum(Y2026, <<1, 1>>, <<1, 0>>, <<0, 6>>, <<2, 0>>, _KEY_TIDE_HIGH, "19.0 ft"),
      Datum(Y2026, <<1, 1>>, <<1, 0>>, <<1, 2>>, <<5, 0>>, _KEY_TIDE_LOW,  "-1.3 ft"),
      Datum(Y2027, <<1>>,    <<2>>,    <<0, 0>>, <<0, 7>>, _KEY_TIDE_LOW,  "0.4 ft"),
      Datum(Y2026, <<1, 1>>, <<1, 0>>, <<0, 8>>, <<4, 1>>, _KEY_SUNRISE,   ""),
      Datum(Y2026, <<1, 1>>, <<1, 1>>, <<1, 6>>, <<5, 2>>, _KEY_SUNSET,    "") }

MaxTideEvents == 4

TidePayloads ==
    {[wellformed |-> TRUE, tideSummary |-> s] : s \in SeqsUpTo(TideEvents, MaxTideEvents)}

\* Sunrises and sunsets of 2026-11-04 and 2026-11-05, and a tide.
SunEvents ==
    { Datum(Y2026, <<1, 1>>, <<4>>,    <<0, 6>>, <<0, 0>>, _KEY_SUNRISE, ""),
      Datum(Y2026, <<1, 1>>, <<0, 4>>, <<4>>,    <<3, 5>>, _KEY_SUNRISE, ""),
      Datum(Y2026, <<1, 1>>, <<4>>,    <<2, 2>>, <<3, 0>>, _KEY_SUNSET,  ""),
      Datum(Y2026, <<1, 1>>, <<4>>,    <<0, 0>>, <<1, 5>>, _KEY_SUNSET,  ""),
      Datum(Y2026, <<1, 1>>, <<5>>,    <<0, 8>>, <<1, 0>>, _KEY_SUNRISE, ""),
      Datum(Y2026, <<1, 1>>, <<5>>,    <<1, 7>>, <<0, 5>>, _KEY_SUNSET,  ""),
      Datum(Y2026, <<1, 1>>, <<4>>,    <<0, 5>>, <<3, 0>>, _KEY_TIDE_HIGH, "18.5 ft") }

MaxSunEvents == 3

SunPayloads ==
    {[wellformed |-> TRUE, tideSummary |-> s] : s \in SeqsUpTo(SunEvents, MaxSunEvents)}

Tomorrows == {<<2026, 11, 4>>, <<2026, 11, 5>>}

\* A response whose JSON lacks the keys the report reads.
TideMalformed == [wellformed |-> FALSE, tideSummary |-> <<>>]

\* The tide responses of the whole-program specifications.
TideA ==
    [wellformed |-> TRUE,
     tideSummary |->
        << Datum(Y2026, <<1, 1>>, <<4>>, <<0, 6>>, <<0, 0>>, _KEY_SUNRISE, ""),
           Datum(Y2026, <<1, 1>>, <<4>>, <<0, 5>>, <<3, 0>>, _KEY_TIDE_HIGH, "18.5 ft"),
           Datum(Y2026, <<1, 1>>, <<4>>, <<2, 2>>, <<3, 0>>, _KEY_SUNSET, "") >>]

TideB ==
    [wellformed |-> TRUE,
     tideSummary |->
        << Datum(Y2026, <<1, 1>>, <<4>>, <<0, 8>>, <<1, 0>>, _KEY_SUNRISE, ""),
           Datum(Y2026, <<1, 1>>, <<4>>, <<1, 1>>, <<1, 5>>, _KEY_TIDE_LOW, "2.1 ft"),
           Datum(Y2026, <<1, 1>>, <<4>>, <<1, 7>>, <<0, 5>>, _KEY_SUNSET, "") >>]

TideC ==
    [wellformed |-> TRUE,
     tideSummary |->
        << Datum(Y2026, <<1, 1>>, <<5>>, <<0, 6>>, <<2, 0>>, _KEY_TIDE_HIGH, "19.0 ft") >>]

\* One entry of forecast.txt_forecast.forecastday.
ForecastDay(p) ==
    [period |-> p, title |-> "Period " \o ToString(p), fcttext |-> "Rain."]

PeriodValues == 0..5

MaxForecastDays == 5

ForecastPayloads ==
    {[wellformed |-> TRUE, forecastday |-> [i \in DOMAIN s |-> ForecastDay(s[i])]] :
        s \in SeqsUpTo(PeriodValues, MaxForecastDays)}

ForecastMalformed == [wellformed |-> FALSE, forecastday |-> <<>>]

\* The feed as the service numbers it: eight periods, 0 to 7.
ForecastA ==
    [wellformed |-> TRUE,
     forecastday |->
        << ForecastDay(0), ForecastDay(1), ForecastDay(2), ForecastDay(3),
           ForecastDay(4), ForecastDay(5), ForecastDay(6), ForecastDay(7) >>]

\* Temperatures, in tenths of a degree Fahrenheit.
Temperatures == {316, -4}

\* The marine feeds of the whole-program specification: every region in a
\* block of its own order, and the same without the fourth region.
SmallFeeds ==
    { FeedText([r \in Regions |-> IF r <= 3 THEN MaxBlocks ELSE 1], "tail"),
      FeedText([r \in Regions |-> IF r = 4 THEN 0 ELSE 1], "none") }

(***************************************************************************)
(*                               __main__                                  *)
(***************************************************************************)
\* The empty text '': the marine report is a sequence of words, the other
\* reports are strings.
EmptyText == IF type_ = "marine" THEN <<>> ELSE ""

Banner == "IMPORTANT:  DO NOT USE THIS SCRIPT MORE THAN ONCE EVERY HALF HOUR"

\* The request the script is about to issue: the feature and the location of
\* the URL (lines 136, 220, 236 and 251).
NextRequest ==
    CASE pc = "daily"    -> <<"tide", key_locations[key_location]>>
      [] pc = "forecast" -> <<"forecast", _ORDER_FORECAST[forecast_i][1]>>
      [] pc = "current"  -> <<"conditions", _ORDER_CURRENT_TEMPERATURE[city_i][1]>>
      [] pc = "marine"   -> <<"marine", "fzak51">>

\* The script is at a requests.get.
AtRequest ==
    \/ pc = "daily" /\ key_location <= Len(key_locations)
    \/ pc = "forecast" /\ forecast_i <= Len(_ORDER_FORECAST)
    \/ pc = "current" /\ city_i <= Len(_ORDER_CURRENT_TEMPERATURE)
    \/ pc = "marine"

\* Lines 263-274: parse the argument, print the banner, enter the report.
MainStart ==
    /\ pc = "main"
    /\ stdout' = Append(stdout, Banner)
    /\ output' = EmptyText
    /\ pc' = type_
    /\ UNCHANGED <<type_, requests, responses, exception, marineVars, tideVars, forecastVars,
                   currentVars>>

\* Line 275.
MainPrint ==
    /\ pc = "print"
    /\ stdout' = Append(stdout, output)
    /\ pc' = "exit"
    /\ UNCHANGED <<type_, output, requests, responses, exception, marineVars, tideVars,
                   forecastVars, currentVars>>

\* The failing request of RequestFails with the exception caught and the
\* report started again.
RequestFailsRetried ==
    /\ AtRequest
    /\ requests' = Append(requests, NextRequest)
    /\ exception' = Len(requests) + 1
    /\ pc' = type_
    /\ UNCHANGED <<responses, type_, stdout, output, marineVars, tideVars, forecastVars,
                   currentVars>>

\* A request that fails, or whose body json.loads rejects, or (line 221) whose
\* JSON lacks the temperature: the exception is caught nowhere.
RequestFails ==
    /\ AtRequest
    /\ requests' = Append(requests, NextRequest)
    /\ exception' = Len(requests) + 1
    /\ pc' = "raised"
    /\ UNCHANGED <<responses, type_, stdout, output, marineVars, tideVars, forecastVars,
                   currentVars>>

\* Lines 146, 177 and 242: a response that is JSON but lacks the keys read
\* raises KeyError.
ParseFails ==
    /\ \/ pc \in {"sunphase", "tide_data"} /\ ~raw_data_tides.wellformed
       \/ pc = "forecast_data" /\ ~raw_data_forecast.wellformed
    /\ exception' = Len(requests)
    /\ pc' = "raised"
    /\ UNCHANGED <<type_, stdout, output, requests, responses, marineVars, tideVars,
                   forecastVars, currentVars>>

(***************************************************************************)
(*                        get_sunphase_and_tides                           *)
(***************************************************************************)
\* Line 122 with the other station.
IsSunphaseLocationSeldovia(k) == key_locations[k] = "kachemak_bay_seldovia"

\* Line 122.
IsSunphaseLocation(k) == key_locations[k] = "kenai_river"

\* Lines 120-122: the request for one location.
TideFetch(payloads) ==
    /\ pc = "daily"
    /\ key_location <= Len(key_locations)
    /\ requests' = Append(requests, NextRequest)
    /\ \E raw \in payloads :
          /\ raw_data_tides' = raw
          /\ responses' = Append(responses, raw)
    /\ pc' = IF IsSunphaseLocation(key_location) THEN "sunphase" ELSE "tide_data"
    /\ UNCHANGED <<type_, stdout, output, exception, marineVars, tomorrow,
                   key_location, sunVars, data_tides, detail_strings,
                   location_details, tide_string_details, sunphase_and_tides,
                   forecastVars, currentVars>>

\* Line 123.
FormatSunphase ==
    /\ pc = "sunphase"
    /\ raw_data_tides.wellformed
    /\ sunrise' = _format_sunphase_data(raw_data_tides, tomorrow)[1]
    /\ sunset' = _format_sunphase_data(raw_data_tides, tomorrow)[2]
    /\ pc' = "daylight"
    /\ UNCHANGED <<type_, stdout, output, requests, responses, exception, marineVars, tomorrow,
                   key_location, raw_data_tides, daylight_hours, daylight_minutes,
                   data_tides, detail_strings, location_details,
                   tide_string_details, sunphase_and_tides, forecastVars,
                   currentVars>>

\* Line 124.
DaylightTotal ==
    /\ pc = "daylight"
    /\ daylight_hours' =
          _get_total_daylight_hours_and_minutes(DeltaMinutes(sunset, sunrise))[1]
    /\ daylight_minutes' =
          _get_total_daylight_hours_and_minutes(DeltaMinutes(sunset, sunrise))[2]
    /\ pc' = "tide_data"
    /\ UNCHANGED <<type_, stdout, output, requests, responses, exception, marineVars, tomorrow,
                   key_location, raw_data_tides, sunrise, sunset, data_tides,
                   detail_strings, location_details, tide_string_details,
                   sunphase_and_tides, forecastVars, currentVars>>

\* Line 125.
FormatTideData ==
    /\ pc = "tide_data"
    /\ raw_data_tides.wellformed
    /\ data_tides' = _format_tide_data(raw_data_tides)
    /\ pc' = "tide_strings"
    /\ UNCHANGED <<type_, stdout, output, requests, responses, exception, marineVars, tomorrow,
                   key_location, raw_data_tides, sunVars, detail_strings,
                   location_details, tide_string_details, sunphase_and_tides,
                   forecastVars, currentVars>>

\* Lines 126-127, and the list built inside _format_tide_detail_strings.
FormatTideDetailStrings ==
    /\ pc = "tide_strings"
    /\ detail_strings' = TideDetailList(data_tides)
    /\ location_details' = _format_tide_detail_strings(data_tides)
    /\ tide_string_details' =
          DictSet(tide_string_details, key_locations[key_location] \o "_detail",
                  _format_tide_detail_strings(data_tides))
    /\ key_location' = key_location + 1
    /\ pc' = "daily"
    /\ UNCHANGED <<type_, stdout, output, requests, responses, exception, marineVars, tomorrow,
                   raw_data_tides, sunVars, data_tides, sunphase_and_tides,
                   forecastVars, currentVars>>

\* Lines 128-132, and the left operand of line 270.
SunphaseAndTidesReturn ==
    /\ pc = "daily"
    /\ key_location > Len(key_locations)
    /\ sunphase_and_tides' =
          _STRING_DAYLIGHT(sunrise, sunset, daylight_hours, daylight_minutes)
          \o _STRING_TIDES(tide_string_details)
    /\ pc' = "forecast"
    /\ UNCHANGED <<type_, stdout, output, requests, responses, exception, marineVars, tomorrow,
                   key_location, raw_data_tides, sunVars, data_tides,
                   detail_strings, location_details, tide_string_details,
                   forecastVars, currentVars>>

(***************************************************************************)
(*                              get_forecast                               *)
(***************************************************************************)
\* Lines 226-227: the request for one location.
ForecastFetch(payloads) ==
    /\ pc = "forecast"
    /\ forecast_i <= Len(_ORDER_FORECAST)
    /\ requests' = Append(requests, NextRequest)
    /\ \E raw \in payloads :
          /\ raw_data_forecast' = raw
          /\ responses' = Append(responses, raw)
    /\ pc' = "forecast_data"
    /\ UNCHANGED <<type_, stdout, output, exception, marineVars, tideVars,
                   forecast_i, data_forecast, forecast_details, currentVars>>

\* Line 228.
FormatForecastData ==
    /\ pc = "forecast_data"
    /\ raw_data_forecast.wellformed
    /\ data_forecast' = _format_forecast_data(raw_data_forecast)
    /\ pc' = "forecast_strings"
    /\ UNCHANGED <<type_, stdout, output, requests, responses, exception, marineVars, tideVars,
                   forecast_i, raw_data_forecast, forecast_details, currentVars>>

\* Lines 229-231.
FormatForecastDetail ==
    /\ pc = "forecast_strings"
    /\ forecast_details' =
          DictSet(forecast_details, _ORDER_FORECAST[forecast_i][1] \o "_detail",
                  ForecastDetail(data_forecast))
    /\ forecast_i' = forecast_i + 1
    /\ pc' = "forecast"
    /\ UNCHANGED <<type_, stdout, output, requests, responses, exception, marineVars, tideVars,
                   raw_data_forecast, data_forecast, currentVars>>

\* Line 232, and the sum of line 270.
ForecastReturn ==
    /\ pc = "forecast"
    /\ forecast_i > Len(_ORDER_FORECAST)
    /\ output' = sunphase_and_tides \o _STRING_FORECAST(forecast_details)
    /\ pc' = "print"
    /\ UNCHANGED <<type_, stdout, requests, responses, exception, marineVars, tideVars,
                   forecastVars, currentVars>>

(***************************************************************************)
(*                         get_current_temperature                         *)
(***************************************************************************)
\* Lines 211-215: one location, its request and its row.
CurrentFetch(temperatures) ==
    /\ pc = "current"
    /\ city_i <= Len(_ORDER_CURRENT_TEMPERATURE)
    /\ requests' = Append(requests, NextRequest)
    /\ \E t \in temperatures :
          /\ raw_temp' = t
          /\ responses' = Append(responses, t)
          /\ string_temperature_details' =
                Append(string_temperature_details,
                       _STRING_CURRENT_TEMPERATURE_DETAIL(
                           _ORDER_CURRENT_TEMPERATURE[city_i][2] \o ":",
                           string_padding, t))
    /\ city_i' = city_i + 1
    /\ UNCHANGED <<pc, type_, stdout, output, exception, marineVars, tideVars,
                   forecastVars>>

\* Line 216, and the assignment of line 272.
CurrentReturn ==
    /\ pc = "current"
    /\ city_i > Len(_ORDER_CURRENT_TEMPERATURE)
    /\ output' = _STRING_CURRENT_TEMPERATURE(JoinStrings(string_temperature_details))
    /\ pc' = "print"
    /\ UNCHANGED <<type_, stdout, requests, responses, exception, marineVars, tideVars,
                   forecastVars, currentVars>>

(***************************************************************************)
(*                           get_marine_forecast                           *)
(***************************************************************************)
\* Lines 251-252: the one request of the marine report, and the split.
MarineFetch(feeds) ==
    /\ pc = "marine"
    /\ \E text \in feeds :
          /\ raw_text' = text
          /\ responses' = Append(responses, text)
          /\ split_text' = ReSplit(text)
    /\ requests' = Append(requests, NextRequest)
    /\ location' = 1
    /\ ordered_forecasts' = <<>>
    /\ pc' = "marine_loop"
    /\ UNCHANGED <<type_, stdout, output, exception, tideVars, forecastVars,
                   currentVars>>

\* Lines 255-258, one iteration whose region is found in some block.
MarineFind ==
    /\ pc = "marine_loop"
    /\ location <= Len(_ORDER_MARINE_FORECAST)
    /\ IdxFound(location, split_text) # 0
    /\ ordered_forecasts' =
          Append(ordered_forecasts, split_text[IdxFound(location, split_text)])
    /\ location' = location + 1
    /\ UNCHANGED <<mainVars, raw_text, split_text, tideVars, forecastVars,
                   currentVars>>

\* Lines 256-257, an iteration whose region is in no block: list.index raises
\* ValueError, which nothing catches.
MarineNotFound ==
    /\ pc = "marine_loop"
    /\ location <= Len(_ORDER_MARINE_FORECAST)
    /\ IdxFound(location, split_text) = 0
    /\ exception' = Len(requests)
    /\ pc' = "raised"
    /\ UNCHANGED <<type_, stdout, output, requests, responses, marineVars, tideVars,
                   forecastVars, currentVars>>

\* Line 259 and the assignment of line 274.
MarineReturn ==
    /\ pc = "marine_loop"
    /\ location > Len(_ORDER_MARINE_FORECAST)
    /\ output' = Flatten(ordered_forecasts)
    /\ pc' = "print"
    /\ UNCHANGED <<type_, stdout, requests, responses, exception, marineVars, tideVars,
                   forecastVars, currentVars>>

(***************************************************************************)
(*                            Specifications                               *)
(***************************************************************************)
NoDatetime == Datetime(0, 0, 0, 0, 0)

\* The script before its first statement, called with weather_type t.
MainInit(t) ==
    /\ pc = "main"
    /\ type_ = t
    /\ stdout = <<>>
    /\ output = EmptyText
    /\ requests = <<>>
    /\ responses = <<>>
    /\ exception = 0

MarineIdle ==
    /\ raw_text = <<>>
    /\ split_text = <<>>
    /\ location = 0
    /\ ordered_forecasts = <<>>

\* Lines 118-119 and the names not yet bound.
TideIdle ==
    /\ key_location = 1
    /\ raw_data_tides = TideMalformed
    /\ sunrise = NoDatetime
    /\ sunset = NoDatetime
    /\ daylight_hours = 0
    /\ daylight_minutes = 0
    /\ data_tides = EmptyDict
    /\ detail_strings = <<>>
    /\ location_details = ""
    /\ tide_string_details = EmptyDict
    /\ sunphase_and_tides = ""

\* Line 225 and the names not yet bound.
ForecastIdle ==
    /\ forecast_i = 1
    /\ raw_data_forecast = ForecastMalformed
    /\ data_forecast = <<>>
    /\ forecast_details = EmptyDict

\* Line 210 and the names not yet bound.
CurrentIdle ==
    /\ city_i = 1
    /\ raw_temp = 0
    /\ string_temperature_details = <<>>

\* The whole script, with requests that may fail.
Init ==
    /\ \E t \in {"daily", "current", "marine"} : MainInit(t)
    /\ tomorrow = <<2026, 11, 4>>
    /\ MarineIdle /\ TideIdle /\ ForecastIdle /\ CurrentIdle

Next ==
    \/ MainStart
    \/ TideFetch({TideA, TideB, TideMalformed})
    \/ FormatSunphase
    \/ DaylightTotal
    \/ FormatTideData
    \/ FormatTideDetailStrings
    \/ SunphaseAndTidesReturn
    \/ ForecastFetch({ForecastA, ForecastMalformed})
    \/ FormatForecastData
    \/ FormatForecastDetail
    \/ ForecastReturn
    \/ CurrentFetch(Temperatures)
    \/ CurrentReturn
    \/ MarineFetch(SmallFeeds)
    \/ MarineFind
    \/ MarineNotFound
    \/ MarineReturn
    \/ RequestFails
    \/ ParseFails
    \/ MainPrint

Spec == Init /\ [][Next]_vars

\* The marine report over every feed of MarineFeeds.
InitMarine ==
    /\ MainInit("marine")
    /\ tomorrow = <<2026, 11, 4>>
    /\ MarineIdle /\ TideIdle /\ ForecastIdle /\ CurrentIdle

NextMarine ==
    \/ MainStart
    \/ MarineFetch(MarineFeeds)
    \/ MarineFind
    \/ MarineNotFound
    \/ MarineReturn
    \/ MainPrint

SpecMarine == InitMarine /\ [][NextMarine]_vars

\* _format_tide_data and _format_tide_detail_strings over every response of
\* TidePayloads: the daily report at line 125 of its first iteration.
InitTide ==
    /\ pc = "tide_data"
    /\ type_ = "daily"
    /\ stdout = <<Banner>>
    /\ output = ""
    /\ requests = <<<<"tide", key_locations[1]>>>>
    /\ raw_data_tides \in TidePayloads
    /\ responses = <<raw_data_tides>>
    /\ exception = 0
    /\ tomorrow = <<2026, 11, 4>>
    /\ key_location = 1
    /\ sunrise = NoDatetime
    /\ sunset = NoDatetime
    /\ daylight_hours = 0
    /\ daylight_minutes = 0
    /\ data_tides = EmptyDict
    /\ detail_strings = <<>>
    /\ location_details = ""
    /\ tide_string_details = EmptyDict
    /\ sunphase_and_tides = ""
    /\ MarineIdle /\ ForecastIdle /\ CurrentIdle

NextTide ==
    \/ FormatTideData
    \/ FormatTideDetailStrings

SpecTide == InitTide /\ [][NextTide]_vars

\* _format_sunphase_data and _get_total_daylight_hours_and_minutes over every
\* response of SunPayloads: the daily report at line 123 of its second
\* iteration, Seldovia having answered an empty tide summary.
InitSun ==
    /\ pc = "sunphase"
    /\ type_ = "daily"
    /\ stdout = <<Banner>>
    /\ output = ""
    /\ requests = <<<<"tide", key_locations[1]>>, <<"tide", key_locations[2]>>>>
    /\ raw_data_tides \in SunPayloads
    /\ responses = <<[wellformed |-> TRUE, tideSummary |-> <<>>], raw_data_tides>>
    /\ exception = 0
    /\ tomorrow \in Tomorrows
    /\ key_location = 2
    /\ sunrise = NoDatetime
    /\ sunset = NoDatetime
    /\ daylight_hours = 0
    /\ daylight_minutes = 0
    /\ data_tides = EmptyDict
    /\ detail_strings = <<>>
    /\ location_details = ""
    /\ tide_string_details = DictSet(EmptyDict, key_locations[1] \o "_detail", "")
    /\ sunphase_and_tides = ""
    /\ MarineIdle /\ ForecastIdle /\ CurrentIdle

NextSun ==
    \/ FormatSunphase
    \/ DaylightTotal

SpecSun == InitSun /\ [][NextSun]_vars

\* _format_forecast_data over every response of ForecastPayloads: the daily
\* report at line 228 of get_forecast's first iteration, both tide stations
\* having answered an empty tide summary.
InitForecast ==
    /\ pc = "forecast_data"
    /\ type_ = "daily"
    /\ stdout = <<Banner>>
    /\ output = ""
    /\ requests = <<<<"tide", key_locations[1]>>, <<"tide", key_locations[2]>>,
                    <<"forecast", _ORDER_FORECAST[1][1]>>>>
    /\ raw_data_forecast \in ForecastPayloads
    /\ responses = <<[wellformed |-> TRUE, tideSummary |-> <<>>],
                     [wellformed |-> TRUE, tideSummary |-> <<>>], raw_data_forecast>>
    /\ exception = 0
    /\ tomorrow = <<2026, 11, 4>>
    /\ key_location = 3
    /\ raw_data_tides = [wellformed |-> TRUE, tideSummary |-> <<>>]
    /\ sunrise = Datetime(2026, 11, 4, 0, 0)
    /\ sunset = Datetime(2026, 11, 4, 0, 0)
    /\ daylight_hours = 0
    /\ daylight_minutes = 0
    /\ data_tides = EmptyDict
    /\ detail_strings = <<>>
    /\ location_details = ""
    /\ tide_string_details =
          DictSet(DictSet(EmptyDict, key_locations[1] \o "_detail", ""),
                  key_locations[2] \o "_detail", "")
    /\ sunphase_and_tides =
          _STRING_DAYLIGHT(sunrise, sunset, 0, 0) \o _STRING_TIDES(tide_string_details)
    /\ forecast_i = 1
    /\ data_forecast = <<>>
    /\ forecast_details = EmptyDict
    /\ MarineIdle /\ CurrentIdle

NextForecast ==
    \/ FormatForecastData
    \/ FormatForecastDetail

SpecForecast == InitForecast /\ [][NextForecast]_vars

\* The script called again from the same terminal on the same day: a new
\* process, whose output follows the earlier output.
MaxRuns == 2

Rerun ==
    /\ pc = "exit"
    /\ Len(stdout) < 2 * MaxRuns
    /\ pc' = "main"
    /\ output' = EmptyText
    /\ exception' = 0
    /\ raw_text' = <<>>
    /\ split_text' = <<>>
    /\ location' = 0
    /\ ordered_forecasts' = <<>>
    /\ key_location' = 1
    /\ raw_data_tides' = TideMalformed
    /\ sunrise' = NoDatetime
    /\ sunset' = NoDatetime
    /\ daylight_hours' = 0
    /\ daylight_minutes' = 0
    /\ data_tides' = EmptyDict
    /\ detail_strings' = <<>>
    /\ location_details' = ""
    /\ tide_string_details' = EmptyDict
    /\ sunphase_and_tides' = ""
    /\ forecast_i' = 1
    /\ raw_data_forecast' = ForecastMalformed
    /\ data_forecast' = <<>>
    /\ forecast_details' = EmptyDict
    /\ city_i' = 1
    /\ raw_temp' = 0
    /\ string_temperature_details' = <<>>
    /\ UNCHANGED <<type_, stdout, requests, responses, tomorrow>>

\* The daily report, run up to MaxRuns times with requests that succeed.
InitRuns ==
    /\ MainInit("daily")
    /\ tomorrow = <<2026, 11, 4>>
    /\ MarineIdle /\ TideIdle /\ ForecastIdle /\ CurrentIdle

NextRuns ==
    \/ MainStart
    \/ TideFetch({TideA, TideB, TideC})
    \/ FormatSunphase
    \/ DaylightTotal
    \/ FormatTideData
    \/ FormatTideDetailStrings
    \/ SunphaseAndTidesReturn
    \/ ForecastFetch({ForecastA})
    \/ FormatForecastData
    \/ FormatForecastDetail
    \/ ForecastReturn
    \/ MainPrint
    \/ Rerun

SpecRuns == InitRuns /\ [][NextRuns]_vars

(***************************************************************************)
(*                        Properties of the forecast                       *)
(***************************************************************************)
\* C3: whatever the length of forecastday and whatever its 'period' values,
\* the list _format_forecast_data returns has at most 4 entries, and they are
\* the first entries of the feed, in feed order.
C3_ForecastAtMostFour ==
    pc \in {"forecast_strings", "forecast"} =>
        /\ Len(data_forecast) <= 4
        /\ Len(data_forecast) <= Len(raw_data_forecast.forecastday)
        /\ \A i \in 1..Len(data_forecast) :
              data_forecast[i] = <<raw_data_forecast.forecastday[i].title,
                                   raw_data_forecast.forecastday[i].fcttext>>

(***************************************************************************)
(*                          Properties of the tides                        *)
(***************************************************************************)
TideSummary == raw_data_tides.tideSummary

\* The positions of the feed holding an event of the type on the date.
TideEventsOn(d, type) ==
    {i \in 1..Len(TideSummary) :
        DateOf(TideSummary[i]) = d /\ TideSummary[i].data.type = type}

\* The calendar dates that have a high or a low tide in the feed.
TideDates ==
    {DateOf(TideSummary[i]) :
        i \in {j \in 1..Len(TideSummary) : TideSummary[j].data.type \in TideTypes}}

DayNumber(d) == d[1] * 10000 + d[2] * 100 + d[3]

\* The place of a date among the dates of the feed, in ascending order.
Rank(d) == 1 + Cardinality({e \in TideDates : DayNumber(e) < DayNumber(d)})

\* The hour, minute and height of a feed entry, as the feed writes them.
FieldsAt(i) ==
    <<StrOf(TideSummary[i].date.hour), StrOf(TideSummary[i].date.min),
      TideSummary[i].data.height>>

Missing == <<"XX", "XX", "XX">>

\* The detail block of a date, given the fields of its high and low tide.
Block(d, high, low) ==
    _STRING_TIDES_DETAIL(d[2], d[3], high[1], high[2], high[3], low[1], low[2], low[3])

TideDetailsMade == type_ = "daily" /\ pc = "daily" /\ key_location > 1

\* C5: when a date of the feed has only one of high tide and low tide, the
\* hour, minute and height of the missing one are rendered as "XX" and those
\* of the present one with values of the feed.
C5_MissingTideIsXX ==
    TideDetailsMade =>
        \A d \in TideDates :
            /\ Rank(d) <= Len(detail_strings)
            /\ TideEventsOn(d, _KEY_TIDE_HIGH) = {} =>
                  \E i \in TideEventsOn(d, _KEY_TIDE_LOW) :
                      detail_strings[Rank(d)] = Block(d, Missing, FieldsAt(i))
            /\ TideEventsOn(d, _KEY_TIDE_LOW) = {} =>
                  \E i \in TideEventsOn(d, _KEY_TIDE_HIGH) :
                      detail_strings[Rank(d)] = Block(d, FieldsAt(i), Missing)

\* Rendered details in which one date has no high tide and another no low tide.
C5_Witness ==
    /\ TideDetailsMade
    /\ \E d \in TideDates : TideEventsOn(d, _KEY_TIDE_HIGH) = {}
    /\ \E d \in TideDates : TideEventsOn(d, _KEY_TIDE_LOW) = {}
    /\ location_details = JoinStrings(detail_strings)

\* The fields a block may show for a type on a date: those of an event of that
\* type on that date, or the placeholder.
Candidates(d, type) == {FieldsAt(i) : i \in TideEventsOn(d, type)} \cup {Missing}

\* C6: whatever the order of the feed, there is exactly one detail block per
\* calendar date that has a high or low tide, the blocks are in strictly
\* ascending date order, and entries of other types create no block.
C6_OneBlockPerDateAscending ==
    TideDetailsMade =>
        /\ Len(detail_strings) = Cardinality(TideDates)
        /\ \A d \in TideDates :
              \E high \in Candidates(d, _KEY_TIDE_HIGH) :
                  \E low \in Candidates(d, _KEY_TIDE_LOW) :
                      detail_strings[Rank(d)] = Block(d, high, low)
        /\ location_details = JoinStrings(detail_strings)
        /\ tide_string_details["kachemak_bay_seldovia_detail"] = location_details

\* Rendered details of a feed that lists three dates, a later one before an
\* earlier one, and an entry that is neither a high nor a low tide.
C6_Witness ==
    /\ TideDetailsMade
    /\ Cardinality(TideDates) = 3
    /\ \E i, j \in 1..Len(TideSummary) :
          /\ i < j
          /\ TideSummary[i].data.type \in TideTypes
          /\ TideSummary[j].data.type \in TideTypes
          /\ DayNumber(DateOf(TideSummary[i])) > DayNumber(DateOf(TideSummary[j]))
    /\ \E i \in 1..Len(TideSummary) : TideSummary[i].data.type \notin TideTypes

\* The last event of the type on the date, in feed order.
LastOn(d, type) ==
    CHOOSE i \in TideEventsOn(d, type) : \A j \in TideEventsOn(d, type) : j <= i

ShownFields(d, type) ==
    IF TideEventsOn(d, type) = {} THEN Missing ELSE FieldsAt(LastOn(d, type))

\* C9: of several events of the same type on the same calendar date only the
\* one that comes last in the feed is kept: the block of a date shows that
\* event's fields for the high tide and for the low tide, and nothing of the
\* earlier ones.
C9_LastEventWins ==
    /\ (type_ = "daily" /\ pc = "tide_strings") =>
          \A d \in TideDates : \A type \in TideTypes :
              TideEventsOn(d, type) # {} =>
                  /\ d \in DOMAIN data_tides
                  /\ type \in DOMAIN data_tides[d]
                  /\ <<data_tides[d][type].hour, data_tides[d][type].minute,
                       data_tides[d][type].height>> = FieldsAt(LastOn(d, type))
    /\ TideDetailsMade =>
          /\ Len(detail_strings) = Cardinality(TideDates)
          /\ \A d \in TideDates :
                detail_strings[Rank(d)] =
                    Block(d, ShownFields(d, _KEY_TIDE_HIGH), ShownFields(d, _KEY_TIDE_LOW))

\* Rendered details of a feed with two different high tides on one date.
C9_Witness ==
    /\ TideDetailsMade
    /\ \E d \in TideDates : \E i, j \in TideEventsOn(d, _KEY_TIDE_HIGH) :
          FieldsAt(i) # FieldsAt(j)

(***************************************************************************)
(*                    Properties of the daylight duration                  *)
(***************************************************************************)
\* C7: for every sunrise and sunset _format_sunphase_data returns, the hours h
\* and minutes m computed from sunset - sunrise satisfy h * 60 + m = the
\* minutes from sunrise to sunset and 0 <= m < 60; sunrise 06:00 and sunset
\* 22:30 give 16 hours and 30 minutes.
C7_DaylightIsDivMod ==
    (type_ = "daily" /\ pc = "tide_data" /\ key_location = 2) =>
        LET total == (sunset.hour * 60 + sunset.minute)
                     - (sunrise.hour * 60 + sunrise.minute)
        IN  /\ daylight_hours * 60 + daylight_minutes = total
            /\ 0 <= daylight_minutes /\ daylight_minutes < 60
            /\ (sunrise.hour = 6 /\ sunrise.minute = 0
                /\ sunset.hour = 22 /\ sunset.minute = 30) =>
                   (daylight_hours = 16 /\ daylight_minutes = 30)

PlannedRequests ==
    CASE type_ = "daily"   -> Len(key_locations) + Len(_ORDER_FORECAST)
      [] type_ = "current" -> Len(_ORDER_CURRENT_TEMPERATURE)
      [] type_ = "marine"  -> 1

\* C4: when the k-th request of a report fails, or its response cannot be
\* read, the script stops there: exactly k requests were issued, none of them
\* twice, and nothing but the banner is printed; a report is printed only
\* after every request of it succeeded.
C4_FailureAborts ==
    /\ exception # 0 =>
          /\ pc = "raised"
          /\ Len(requests) = exception
          /\ Len(stdout) = 1
          /\ stdout[1] = Banner
    /\ pc = "raised" => exception # 0
    /\ \A i, j \in 1..Len(requests) : requests[i] = requests[j] => i = j
    /\ Len(requests) <= PlannedRequests
    /\ Len(stdout) = 2 =>
          /\ exception = 0
          /\ Len(requests) = PlannedRequests

\* The daily report stopped by the failure of its third request, the first
\* of get_forecast, after the daylight and tide text was built.
C4_Witness ==
    /\ type_ = "daily" /\ pc = "raised"
    /\ exception = 3
    /\ Len(sunphase_and_tides) > 0
    /\ Len(stdout) = 1

(***************************************************************************)
(*                    Properties of the repeated report                    *)
(***************************************************************************)
\* The first position at which sub occurs in s; 0 when it does not.
FindStr(s, sub) ==
    LET hits == {p \in 1..(Len(s) - Len(sub) + 1) : SubSeq(s, p, p + Len(sub) - 1) = sub}
    IN  IF hits = {} THEN 0 ELSE CHOOSE p \in hits : \A q \in hits : p <= q

\* The Daylight block of a daily report: what precedes the Tides block.
DaylightBlockOf(report) == SubSeq(report, 1, FindStr(report, "\nTides\n") - 1)

\* A daily report without its Seldovia tide detail.
WithoutSeldoviaDetail(report) ==
    LET head == "  Kachemak Bay, Seldovia\n"
        from == FindStr(report, head) + Len(head)
        to   == FindStr(report, "\n  Kenai River\n")
    IN  SubSeq(report, 1, from - 1) \o SubSeq(report, to, Len(report))

\* The runs that printed their report.
Printed == {k \in 1..MaxRuns : Len(stdout) >= 2 * k}

RequestsPerRun == Len(key_locations) + Len(_ORDER_FORECAST)

SeldoviaOf(k) == responses[RequestsPerRun * (k - 1) + 1]
KenaiOf(k)    == responses[RequestsPerRun * (k - 1) + 2]
ReportOf(k)   == stdout[2 * k]

\* C10: the Seldovia response is requested first, and two runs of the daily
\* report on the same day whose Kenai River responses are equal print the same
\* Daylight block, and the same report but for the Seldovia tide detail,
\* whatever their Seldovia responses.
C10_DaylightFromKenaiOnly ==
    /\ \A k \in 1..MaxRuns :
          Len(requests) > RequestsPerRun * (k - 1) + 1 =>
              /\ requests[RequestsPerRun * (k - 1) + 1] = <<"tide", "kachemak_bay_seldovia">>
              /\ requests[RequestsPerRun * (k - 1) + 2] = <<"tide", "kenai_river">>
    /\ \A i, j \in Printed :
          (i < j /\ KenaiOf(i) = KenaiOf(j)) =>
              /\ FindStr(ReportOf(i), "\nTides\n") > 1
              /\ DaylightBlockOf(ReportOf(i)) = DaylightBlockOf(ReportOf(j))
              /\ WithoutSeldoviaDetail(ReportOf(i)) = WithoutSeldoviaDetail(ReportOf(j))

\* Two printed runs with equal Kenai River responses and different Seldovia
\* responses, whose reports differ.
C10_Witness ==
    /\ Printed = 1..2
    /\ KenaiOf(1) = KenaiOf(2)
    /\ SeldoviaOf(1) # SeldoviaOf(2)
    /\ ReportOf(1) # ReportOf(2)

(***************************************************************************)
(*                    Properties of the marine forecast                    *)
(***************************************************************************)
\* The blocks (by position in split order) that contain the r-th region name.
BlocksWith(r) ==
    {k \in 1..Len(split_text) : ReSearch(_ORDER_MARINE_FORECAST[r], split_text[k])}

Least(S) == CHOOSE k \in S : \A j \in S : k <= j

\* C1: the i-th block the function picks is the first block (in split order)
\* containing the i-th name of the fixed list; it fails only at a region that
\* no block contains, so when every one of the 7 names occurs in some block it
\* returns, and what it returns is the concatenation of exactly 7 blocks, the
\* i-th being the first block containing the i-th name.
C1_MarineOrder ==
    /\ pc = "raised" => BlocksWith(location) = {}
    /\ pc \in {"marine_loop", "raised"} =>
          /\ Len(ordered_forecasts) = location - 1
          /\ \A i \in 1..Len(ordered_forecasts) :
                ordered_forecasts[i] = split_text[Least(BlocksWith(i))]
    /\ (type_ = "marine" /\ pc \in {"print", "exit"}) =>
          /\ Len(ordered_forecasts) = 7
          /\ output = Flatten([i \in 1..7 |-> split_text[Least(BlocksWith(i))]])

\* A finished marine report whose feed lists the regions out of order (the
\* first region's block comes after the last region's) and names a region
\* in more than one block.
C1_Witness ==
    /\ type_ = "marine" /\ pc = "exit"
    /\ \A r \in Regions : BlocksWith(r) # {}
    /\ Least(BlocksWith(1)) > Least(BlocksWith(7))
    /\ \E r \in Regions : Cardinality(BlocksWith(r)) > 1
    /\ stdout[2] = output

\* C2: the function returns only when every region name occurs in some block.
\* When one is missing it stops with the exception at that region: `output`
\* keeps its initial empty value and nothing but the banner is printed, whatever
\* blocks were picked for the regions before it.
C2_MarineMissing ==
    /\ (type_ = "marine" /\ pc \in {"print", "exit"}) =>
          \A r \in Regions : BlocksWith(r) # {}
    /\ pc = "raised" =>
          /\ BlocksWith(location) = {}
          /\ output = <<>>
          /\ Len(stdout) = 1
    /\ (type_ = "marine" /\ pc \in {"marine", "marine_loop"}) =>
          /\ output = <<>>
          /\ Len(stdout) = 1

\* The exception raised at a region that is not the first of the list, after
\* blocks were picked for the regions before it, with a later region present.
C2_Witness ==
    /\ type_ = "marine" /\ pc = "raised"
    /\ location > 1
    /\ Len(ordered_forecasts) = location - 1
    /\ \E r \in (location + 1)..7 : BlocksWith(r) # {}

=============================================================================
